---- MODULE Spec2Model ----
(***************************************************************************)
(* Gallery Reconciler of src/src/App.tsx: the in-memory list `rows` kept   *)
(* in sync with the unlockeddata table by an initial bulk read, the live   *)
(* INSERT / UPDATE / DELETE feed and the user's delete button, and the     *)
(* slot projection computed from it on every render.                      *)
(*                                                                         *)
(* Layout Editor of src/src/setting.tsx (SettingPage): the mapping `views` *)
(* from frame id to geometry, its load from the settinglayout table, the   *)
(* debounced upsert of the whole mapping, the drag session and the resize  *)
(* observation.  `layout` says which SettingPage is mounted.  Its cleanup   *)
(* button (handleCleanup) empties currentdata and removes the duplicates   *)
(* of lockeddata.                                                          *)
(*                                                                         *)
(* The bounded gallery also loads the frame layouts the editor stored     *)
(* (`frames`) and draws each slot in the rectangle getBox gives it.        *)
(*                                                                         *)
(* The file holds two variants of the component: the unbounded gallery     *)
(* (lines 20-157) and the bounded gallery of 16 slots (lines 189-454).     *)
(* `variant` says which one is mounted.                                    *)
(*                                                                         *)
(* A timestamp is modelled by the instant it denotes (milliseconds since   *)
(* the epoch, a positive integer), so new Date(s).getTime() is the value   *)
(* itself; null is NullTime.  An image_url is a string; null is NullUrl.   *)
(***************************************************************************)
EXTENDS Integers, Sequences, FiniteSets, TLC

VARIABLES
    variant,     \* "unbounded" | "bounded": which App component is mounted
    rows,        \* useState<UnlockedRow[]>: the collection
    loadState,   \* fetchImages: "pending" | "ok" | "failed"
    loading,     \* useState<boolean> (unbounded variant)
    error,       \* useState<string | null> (unbounded variant): "null" | "msg"
    deleting,    \* useState<Record<string, boolean>>: ids marked in flight
    pendingDel,  \* delete requests awaiting the backend's answer (ids)
    prev,        \* history (gallery): `rows` as the last handler found it
    last,        \* history (gallery): the last handler run and its payload
    burst,       \* SpecBurst: number of distinct-id live inserts delivered
    \* --- SettingPage of src/src/setting.tsx
    layout,      \* "A" | "B": which SettingPage is mounted ("none": neither)
    layouts,     \* the setting_layouts table: a set of rows
    views,       \* useState<Record<string, {x, y, w, h}>>: the mapping
    dragging,    \* useState<{id, offsetX, ...} | null>: the drag session
    statusMsg,   \* useState<string>: "" or the kind of the message shown
    topId,       \* useState<string | null>: the frame raised last
    isLoading,   \* useState<boolean> (variant A)
    layoutLoad,  \* the select issued at mount: "pending" | "done"
    timer,       \* the debounce effect's setTimeout: ms left, or NoTimer
    inFlight,    \* upsert calls awaiting the backend's answer (payloads)
    scroll,      \* the canvas element's scrollLeft / scrollTop
    origin,      \* the canvas element's getBoundingClientRect() left / top
    quiet,       \* history: ms since setViews last installed a mapping
    calls,       \* history: upsert calls issued since then
    muts,        \* history: mappings installed since the timer last expired:
                 \* 0, 1, or 2 for two or more
    sent,        \* history: the payload of the upsert call issued since then
    \* --- handleCleanup of src/src/setting.tsx
    currentdata, \* the currentdata table: the set of its rows' ids
    lockeddata,  \* the lockeddata table: a set of rows
    cleanup,     \* the handleCleanup calls: for each, where it stands
    \* --- mounting and unmounting
    mounted,     \* the page (gallery or SettingPage) is mounted
    channel,     \* the gallery's realtime channel: "joined" | "removed"
                 \* ("none": no gallery)
    itemRefs,    \* itemRefs.current: the frame ids that have an element
    resizeObservers, \* resizeObservers.current: the frame ids that have an entry
    observing,   \* for each frame id, how many ResizeObservers observe its
                 \* element
    \* --- frame layouts of the bounded App of src/src/App.tsx
    frames,      \* useState<FrameLayout[]>: the stored rectangles, in order
    framesLoad   \* loadFrames: "pending" | "ok" | "failed" ("none": no
                 \* bounded gallery)

galleryVars == <<variant, rows, loadState, loading, error, deleting,
                 pendingDel, burst>>

editorVars == <<layout, layouts, views, dragging, statusMsg, topId, isLoading,
                layoutLoad, timer, inFlight, scroll, origin, quiet, calls,
                muts, sent>>

cleanupVars == <<currentdata, lockeddata, cleanup>>

lifeVars == <<mounted, channel, itemRefs, resizeObservers, observing>>

frameVars == <<frames, framesLoad>>

pageVars == <<cleanupVars, lifeVars, frameVars>>

vars == <<galleryVars, editorVars, prev, last, pageVars>>

\* ------------------------------------------------------------------ bounds

\* The bounded gallery's slot count.
Cap == 16
\* Live events of the general specification carry ids 1..MaxId.
MaxId == 2
\* Their created_at is null or the instant MaxTime; stored rows are older.
MaxTime == 2
\* At most MaxInFlight delete requests of the user are in flight at once.
MaxInFlight == 1
\* The unlockeddata table the bulk read sees holds at most MaxRows stored rows.
MaxRows == 17
\* SpecBurst delivers at most MaxBurst live inserts of distinct ids.
MaxBurst == 18
\* A setting_layouts table of at most MaxFrameShuffled rows is read in every
\* order.
MaxFrameShuffled == 3

\* ------------------------------------------------------------------ values

NullTime == -1
NullUrl == "NULL"
EmptyUrl == ""

Variants == {"unbounded", "bounded"}
Ids == 1..MaxId
Urls == {NullUrl, EmptyUrl, "a"}
Times == {NullTime, MaxTime}

\* type UnlockedRow
UnlockedRow(i, u, c) == [id |-> i, image_url |-> u, created_at |-> c]

\* The payloads the live feed delivers in the general specification: every
\* payload for id 1, one payload (an image, the newest instant) for the others.
LiveRows ==
    {UnlockedRow(1, u, c) : u \in Urls, c \in Times}
        \cup {UnlockedRow(i, "a", MaxTime) : i \in Ids \ {1}}

\* JavaScript truthiness of an image_url / created_at (!!r.image_url).
Truthy(u) == u \notin {NullUrl, EmptyUrl}

Min(a, b) == IF a <= b THEN a ELSE b

\* Array.prototype.slice(0, n)
Slice(s, n) == SubSeq(s, 1, Min(n, Len(s)))

\* Mutant: the filter compares each record itself, not its id, with the id,
\* which no record equals: every record is kept.
WithoutIdComparesRecord(s, i) == SelectSeq(s, LAMBDA r : TRUE)

\* prev.filter((r) => r.id !== id)
WithoutId(s, i) == SelectSeq(s, LAMBDA r : r.id # i)

IdsOf(s) == {s[k].id : k \in 1..Len(s)}

\* ------------------------------------------------------------ bulk read

\* Rows stored in the table besides the live ones: ids MaxId+1.. ; the second
\* has no image yet, the others were all created at instant 1.
StoredRow(k) ==
    UnlockedRow(MaxId + k, IF k = 2 THEN NullUrl ELSE "a", IF k = 3 THEN NullTime ELSE 1)

StoredRows(n) == [k \in 1..n |-> StoredRow(k)]

\* What the table may hold when the bulk read runs: n stored rows, possibly
\* headed by a row of live id 1.  Ids are the primary key: pairwise distinct.
TableSizes == {0, Cap - 1, MaxRows}
Tables ==
    {StoredRows(n) : n \in TableSizes}
        \cup {<<UnlockedRow(1, u, MaxTime)>> \o StoredRows(n) :
                u \in {NullUrl, "a"}, n \in TableSizes}

\* .select(...).order(...) and, in the bounded variant, .limit(16)
Query(v, table) == IF v = "bounded" THEN Slice(table, Cap) ELSE table

\* (data ?? []).filter((r) => !!r.image_url).map(...)
Cleaned(data) ==
    LET kept == SelectSeq(data, LAMBDA r : Truthy(r.image_url))
    IN  [k \in 1..Len(kept) |->
            UnlockedRow(kept[k].id, kept[k].image_url, kept[k].created_at)]

\* The argument of setRows in fetchImages.
FetchedRows(v, data) ==
    IF v = "bounded" THEN Slice(Cleaned(data), Cap) ELSE Cleaned(data)

\* ------------------------------------------------------- live handlers

\* Mutant: the new record is prepended without taking out the one it replaces.
InsertRowsNoDedupe(v, p, newRow) ==
    IF v = "bounded" THEN Slice(<<newRow>> \o p, Cap) ELSE <<newRow>> \o p

\* Mutant: the new record is appended instead of prepended.
InsertRowsAtEnd(v, p, newRow) ==
    IF v = "bounded"
    THEN Slice(WithoutId(p, newRow.id) \o <<newRow>>, Cap)
    ELSE WithoutId(p, newRow.id) \o <<newRow>>

\* INSERT handler's updater: upsert by id at the front, 16 kept when bounded.
InsertRows(v, p, newRow) ==
    LET withoutDup == WithoutId(p, newRow.id)
    IN  IF v = "bounded"
        THEN Slice(<<newRow>> \o withoutDup, Cap)
        ELSE <<newRow>> \o withoutDup

\* Mutant: the guard tests for null only, so an empty image_url gets through.
InsertedRowsNullOnly(v, p, newRow) ==
    IF newRow.image_url = NullUrl THEN p ELSE InsertRows(v, p, newRow)

\* The INSERT callback's effect on the collection: a payload without an image
\* returns before setRows.
InsertedRows(v, p, newRow) ==
    IF ~Truthy(newRow.image_url) THEN p ELSE InsertRows(v, p, newRow)

\* Mutant: the spread is written the other way round, { ...updated, ...r }.
MergeRowReversed(r, updated) ==
    [f \in DOMAIN r \cup DOMAIN updated |->
        IF f \in DOMAIN r THEN r[f] ELSE updated[f]]

\* { ...r, ...updated }
MergeRow(r, updated) ==
    [f \in DOMAIN r \cup DOMAIN updated |->
        IF f \in DOMAIN updated THEN updated[f] ELSE r[f]]

\* Mutant: an update of an unknown id inserts the record.
UpdateRowsUpsert(p, updated) ==
    IF updated.id \in IdsOf(p)
    THEN [k \in 1..Len(p) |->
            IF p[k].id = updated.id THEN MergeRow(p[k], updated) ELSE p[k]]
    ELSE <<updated>> \o p

\* UPDATE handler's updater.
UpdateRows(p, updated) ==
    [k \in 1..Len(p) |-> IF p[k].id = updated.id THEN MergeRow(p[k], updated) ELSE p[k]]

\* Mutant: the filter's test is inverted and keeps only the deleted record.
DeleteRowsInverted(p, i) == SelectSeq(p, LAMBDA r : r.id = i)

\* DELETE handler's updater, and handleDelete's.
DeleteRows(p, i) == WithoutId(p, i)

\* ------------------------------------------------------ slot projection

\* a.created_at ? new Date(a.created_at).getTime() : 0
TimeOf(r) == IF r.created_at = NullTime THEN 0 ELSE r.created_at

\* Mutant: the comparator sorts oldest first.
CompareAscending(a, b) == TimeOf(a) - TimeOf(b)

\* The comparator of desc: negative when a goes first.
Compare(a, b) == TimeOf(b) - TimeOf(a)

\* Array.prototype.sort is stable: r goes behind every element that does not
\* compare after it.
RECURSIVE SortInsert(_, _)
SortInsert(sorted, r) ==
    IF sorted = <<>> THEN <<r>>
    ELSE IF Compare(sorted[1], r) <= 0
         THEN <<sorted[1]>> \o SortInsert(Tail(sorted), r)
         ELSE <<r>> \o sorted

RECURSIVE SortFrom(_, _)
SortFrom(sorted, rest) ==
    IF rest = <<>> THEN sorted
    ELSE SortFrom(SortInsert(sorted, rest[1]), Tail(rest))

\* const desc = [...rows].sort(...)
Desc(s) == SortFrom(<<>>, s)

\* slotToRow: a slot is a key only when desc[slot - 1] exists.
SlotToRow(s) ==
    LET desc == Desc(s)
    IN  [slot \in {n \in 1..Cap : n <= Len(desc)} |-> desc[slot]]

\* visibleIdx: the 0-based indices rendered.
VisibleIdx(s) ==
    LET slotToRow == SlotToRow(s)
    IN  {i \in 0..(Cap - 1) : (i + 1) \in DOMAIN slotToRow}

\* ------------------------------------------------ layout editor: values

\* Lengths are in tenths of a pixel, so that 259.6 px is the integer 2596;
\* time is in milliseconds.
Px(n) == 10 * n

\* Math.round: the nearest whole pixel, halves going up.
MathRound(v) == ((v + 5) \div 10) * 10

\* setTimeout(..., 400)
Debounce == 400
\* const gripThreshold = 18
GripThreshold == 18
\* Array.from({ length: 20 }, ...)
FrameCount == 20

NoTimer == -1
\* `dragging` is null: a session of no frame.
NoSession ==
    [id |-> "", offsetX |-> 0, offsetY |-> 0, canvasLeft |-> 0, canvasTop |-> 0,
     scrollLeft |-> 0, scrollTop |-> 0]
NoTop == "null"
\* An id column that is null or the empty string: `it.id` is falsy.
NoId == ""
NoViews == <<>>

Geometry(x, y, w, h) == [x |-> x, y |-> y, w |-> w, h |-> h]
\* type SettingLayoutRow
SettingLayoutRow(id, v) == [id |-> id, x |-> v.x, y |-> v.y, w |-> v.w, h |-> v.h]

\* `frame-${i + 1}`
FrameId(n) == "frame-" \o ToString(n)
\* const FRAME_IDS: FRAME_IDS[idx + 1] is the source's FRAME_IDS[idx].
FRAME_IDS == [n \in 1..FrameCount |-> FrameId(n)]
FrameIds == {FRAME_IDS[n] : n \in 1..FrameCount}
\* Number(id.split('-')[1]) - 1, for the ids of FRAME_IDS.
IndexOf(id) == (CHOOSE n \in 1..FrameCount : FRAME_IDS[n] = id) - 1

\* The gallery is mounted and the layout editor is not: its state does not
\* exist, and is held at these values.
\* type LockedRow
LockedRow(i, n, c) == [id |-> i, nfc_id |-> n, created_at |-> c]
NullNfc == "NULL"

\* The handleCleanup calls that may be running at once: the button has no
\* guard, so a second click starts a second call.
RunIds == {1, 2}

\* A handleCleanup call: `at` is the await it stands at ("idle": not started,
\* "done" / "failed": returned), curIdList and idsToDelete its locals, `i` the
\* loop index, `count` the two numbers of its closing message; `issued` is the
\* history of its remote calls and `batches` that of its delete chunks.
CleanupRun(at, curIdList, idsToDelete, i, count, issued, batches) ==
    [at |-> at, curIdList |-> curIdList, idsToDelete |-> idsToDelete, i |-> i,
     count |-> count, issued |-> issued, batches |-> batches]
IdleRun == CleanupRun("idle", {}, <<>>, 0, <<0, 0>>, <<>>, <<>>)

NoCleanup ==
    /\ currentdata = {}
    /\ lockeddata = {}
    /\ cleanup = [r \in RunIds |-> IdleRun]

\* The refs after the first commit of a page that draws the frames `ids`: each
\* frame has its element and one observer on it.
Attached(ids) ==
    /\ itemRefs = ids
    /\ resizeObservers = ids
    /\ observing = [id \in FrameIds |-> IF id \in ids THEN 1 ELSE 0]

\* No bounded gallery is mounted: no frame layouts are loaded.
NoFrames ==
    /\ frames = <<>>
    /\ framesLoad = "none"

\* The state of the layout editor besides the setting_layouts table.
EditorAbsent ==
    /\ layout = "none"
    /\ views = NoViews
    /\ dragging = NoSession
    /\ statusMsg = ""
    /\ topId = NoTop
    /\ isLoading = FALSE
    /\ layoutLoad = "done"
    /\ timer = NoTimer
    /\ inFlight = <<>>
    /\ scroll = [x |-> 0, y |-> 0]
    /\ origin = [x |-> 0, y |-> 0]
    /\ quiet = 0
    /\ calls = 0
    /\ muts = 0
    /\ sent = {}
    /\ NoCleanup
    /\ Attached({})

NoEditor ==
    /\ layouts = {}
    /\ EditorAbsent

\* ------------------------------------------------------------- actions

NoRow == UnlockedRow(0, NullUrl, NullTime)
Ran(op, row) == [op |-> op, row |-> row]

Init ==
    /\ variant \in Variants
    /\ rows = <<>>
    /\ loadState = "pending"
    /\ loading = TRUE
    /\ error = "null"
    /\ deleting = {}
    /\ pendingDel = {}
    /\ prev = <<>>
    /\ last = Ran("mount", NoRow)
    /\ burst = 0
    /\ NoEditor
    /\ mounted = TRUE
    /\ channel = "joined"
    /\ frames = <<>>
    /\ framesLoad = IF variant = "bounded" THEN "pending" ELSE "none"

\* fetchImages resolves with data.
LoadOk(table) ==
    /\ loadState = "pending"
    /\ loadState' = "ok"
    /\ prev' = rows
    /\ rows' = FetchedRows(variant, Query(variant, table))
    /\ loading' = FALSE
    /\ last' = Ran("LOAD_OK", NoRow)
    /\ UNCHANGED <<variant, error, deleting, pendingDel, burst>>
    /\ UNCHANGED <<editorVars, pageVars>>

\* fetchImages resolves with an error: the unbounded variant sets `error`,
\* the bounded one only logs to the console.
LoadFail ==
    /\ loadState = "pending"
    /\ loadState' = "failed"
    /\ prev' = rows
    /\ error' = IF variant = "unbounded" THEN "msg" ELSE error
    /\ loading' = FALSE
    /\ last' = Ran("LOAD_FAIL", NoRow)
    /\ UNCHANGED <<variant, rows, deleting, pendingDel, burst>>
    /\ UNCHANGED <<editorVars, pageVars>>

\* The INSERT callback.
Insert(newRow) ==
    /\ prev' = rows
    /\ rows' = InsertedRows(variant, rows, newRow)
    /\ last' = Ran("INSERT", newRow)
    /\ UNCHANGED <<variant, loadState, loading, error, deleting, pendingDel>>
    /\ UNCHANGED <<editorVars, pageVars>>

OnInsert(newRow) == Insert(newRow) /\ UNCHANGED burst

\* The UPDATE callback.
OnUpdate(updated) ==
    /\ prev' = rows
    /\ rows' = UpdateRows(rows, updated)
    /\ last' = Ran("UPDATE", updated)
    /\ UNCHANGED <<variant, loadState, loading, error, deleting, pendingDel,
                   burst>>
    /\ UNCHANGED <<editorVars, pageVars>>

\* The DELETE callback; payload.old carries the id.
OnDelete(i) ==
    /\ prev' = rows
    /\ rows' = DeleteRows(rows, i)
    /\ last' = Ran("DELETE", UnlockedRow(i, NullUrl, NullTime))
    /\ UNCHANGED <<variant, loadState, loading, error, deleting, pendingDel,
                   burst>>
    /\ UNCHANGED <<editorVars, pageVars>>

\* The rows whose delete button the user may press: the rendered ones (bounded
\* variant only) whose button is not disabled; the model presses only the
\* buttons of the live ids and of the first stored row.
Clickable ==
    LET slotToRow == SlotToRow(rows)
    IN  {r \in {slotToRow[n] : n \in DOMAIN slotToRow} :
            r.id \in 1..(MaxId + 1) /\ r.id \notin deleting}

\* handleDelete up to its await: the marker is set and the request sent.
DeleteClick(row) ==
    /\ variant = "bounded"
    /\ row \in Clickable
    /\ Cardinality(pendingDel) < MaxInFlight
    /\ deleting' = deleting \cup {row.id}
    /\ pendingDel' = pendingDel \cup {row.id}
    /\ prev' = rows
    /\ last' = Ran("CLICK", row)
    /\ UNCHANGED <<variant, rows, loadState, loading, error, burst>>
    /\ UNCHANGED <<editorVars, pageVars>>

\* Mutant: the record is taken out whatever the request answered.
DeletedRowsAlways(p, i, outcome) == DeleteRows(p, i)

\* What handleDelete does to `rows` once the request has answered:
\* "ok" (no error), "error" (delErr returned) or "throw" (the await rejects).
DeletedRows(p, i, outcome) == IF outcome = "ok" THEN DeleteRows(p, i) ELSE p

\* The finally block's updater: delete next[row.id].
Unmark(d, i, outcome) == d \ {i}

Outcomes == {"ok", "error", "throw"}

\* handleDelete from the await's answer to its end.
DeleteDone(i, outcome) ==
    /\ i \in pendingDel
    /\ pendingDel' = pendingDel \ {i}
    /\ prev' = rows
    /\ rows' = DeletedRows(rows, i, outcome)
    /\ deleting' = Unmark(deleting, i, outcome)
    /\ last' = Ran(outcome, UnlockedRow(i, NullUrl, NullTime))
    /\ UNCHANGED <<variant, loadState, loading, error, burst>>
    /\ UNCHANGED <<editorVars, pageVars>>

Next ==
    \/ \E table \in Tables : LoadOk(table)
    \/ LoadFail
    \/ \E r \in LiveRows : OnInsert(r)
    \/ \E r \in LiveRows : OnUpdate(r)
    \/ \E i \in Ids : OnDelete(i)
    \/ \E row \in Clickable : DeleteClick(row)
    \/ \E i \in pendingDel, o \in Outcomes : DeleteDone(i, o)

Spec == Init /\ [][Next]_vars

\* ---------------------------------------------------- a burst of inserts

\* SpecBurst: the bounded gallery receiving live inserts of pairwise distinct,
\* fresh ids with increasing created_at and no delete at all, while the bulk
\* read issued at mount is still free to resolve at any moment.
BurstRow(n) == UnlockedRow(MaxId + MaxRows + n, "a", MaxTime + n)

InitBurst == Init /\ variant = "bounded"

BurstInsert ==
    /\ burst < MaxBurst
    /\ Insert(BurstRow(burst + 1))
    /\ burst' = burst + 1

\* An UPDATE for the row inserted first.
BurstUpdate(u) ==
    /\ burst > 0
    /\ OnUpdate(UnlockedRow(BurstRow(1).id, u, BurstRow(1).created_at))

NextBurst ==
    \/ BurstInsert
    \/ \E u \in {NullUrl, "b"} : BurstUpdate(u)
    \/ \E table \in Tables : LoadOk(table)
    \/ LoadFail

SpecBurst == InitBurst /\ [][NextBurst]_vars

\* ---------------------------------------------------- frame layouts
\* The bounded App's frame layouts (src/src/App.tsx lines 228-255, 371-377):
\* loadFrames reads the setting_layouts table once at mount, and getBox gives
\* each rendered slot its rectangle.  Lengths are in tenths of a pixel.

\* parseInt(id.split('-')[1] || '0', 10), for the ids of FRAME_IDS; an id
\* without a second part counts as 0.
ParsedNumber(id) ==
    IF \E n \in 1..FrameCount : FrameId(n) = id
    THEN CHOOSE n \in 1..FrameCount : FrameId(n) = id
    ELSE 0

\* (data ?? []).map(...): String(r.id) of a string and Number(r.x) of a number
\* are the values themselves.
FrameList(data) ==
    [k \in 1..Len(data) |->
        SettingLayoutRow(data[k].id,
                         Geometry(data[k].x, data[k].y, data[k].w, data[k].h))]

\* list.sort((a, b) => na - nb): ascending by the number in the id, rows of
\* equal number in the order they had.
SortedFrames(list) ==
    LET n == Len(list)
        Number(k) == ParsedNumber(list[k].id)
        Before(k) == {j \in 1..n : \/ Number(j) < Number(k)
                                   \/ Number(j) = Number(k) /\ j < k}
        place == [k \in 1..n |-> Cardinality(Before(k)) + 1] \o <<>>
    IN  [q \in 1..n |-> list[CHOOSE k \in 1..n : place[k] = q]] \o <<>>

\* The argument of setFrames in loadFrames.
LoadedFrames(data) == Slice(SortedFrames(FrameList(data)), Cap)

\* getBox(idx): the element of `frames` at idx, or the default grid cell.
GetBox(list, idx) ==
    IF idx + 1 <= Len(list)
    THEN list[idx + 1]
    ELSE LET baseW == Px(320)
             baseH == Px(220)
             margin == Px(16)
             cols == 4
             col == idx % cols
             r == idx \div cols
         IN  Geometry(col * (baseW + margin), r * (baseH + margin), baseW, baseH)

\* left, top, width and height of the element drawn for the slot idx + 1.
Box(list, idx) ==
    LET box == GetBox(list, idx)
    IN  Geometry(box.x, box.y, box.w, box.h)

\* --- inputs

\* The row stored for frame-n.
StoredFrame(n) ==
    SettingLayoutRow(FrameId(n), Geometry(Px(40 * n), Px(600), Px(100 + n), Px(80)))

\* What setting_layouts may hold: nothing, rows for the first frames, rows
\* with a gap, and more rows than the gallery has slots.
FrameTables ==
    { {}, {StoredFrame(n) : n \in 1..3}, {StoredFrame(1), StoredFrame(3)},
      {StoredFrame(n) : n \in 1..(Cap + 1)} }

\* The orders in which the select may return the rows: every order for a small
\* table, the descending order of the frame numbers for a large one.
FrameReadOrders(table) ==
    LET n == Cardinality(table)
    IN  IF n <= MaxFrameShuffled
        THEN {q \in [1..n -> table] : \A j, k \in 1..n : j # k => q[j] # q[k]}
        ELSE {[k \in 1..n |->
                 CHOOSE row \in table :
                    Cardinality({o \in table :
                       ParsedNumber(o.id) > ParsedNumber(row.id)}) = k - 1]}

\* --- actions

\* loadFrames resolves with data.
LoadFramesOk(data) ==
    /\ framesLoad = "pending"
    /\ framesLoad' = "ok"
    /\ frames' = LoadedFrames(data)
    /\ UNCHANGED <<galleryVars, editorVars, prev, last, cleanupVars, lifeVars>>

\* loadFrames resolves with an error, or its await rejects.
LoadFramesFail ==
    /\ framesLoad = "pending"
    /\ framesLoad' = "failed"
    /\ frames' = <<>>
    /\ UNCHANGED <<galleryVars, editorVars, prev, last, cleanupVars, lifeVars>>

\* The bounded gallery at mount, next to a setting_layouts table.
FramesInit ==
    /\ variant = "bounded"
    /\ rows = <<>>
    /\ loadState = "pending"
    /\ loading = TRUE
    /\ error = "null"
    /\ deleting = {}
    /\ pendingDel = {}
    /\ prev = <<>>
    /\ last = Ran("mount", NoRow)
    /\ burst = 0
    /\ layouts \in FrameTables
    /\ EditorAbsent
    /\ mounted = TRUE
    /\ channel = "joined"
    /\ frames = <<>>
    /\ framesLoad = "pending"

\* The bulk read and the live inserts and deletes fill and empty the slots;
\* loadFrames answers at any moment.
FramesNext ==
    \/ \E table \in Tables : LoadOk(table)
    \/ LoadFail
    \/ \E r \in LiveRows : OnInsert(r)
    \/ \E i \in Ids : OnDelete(i)
    \/ /\ framesLoad = "pending"
       /\ \E data \in FrameReadOrders(layouts) : LoadFramesOk(data)
    \/ LoadFramesFail

SpecFrames == FramesInit /\ [][FramesNext]_vars

\* ------------------------------------------------------------- claims

IdSeq(s) == [k \in 1..Len(s) |-> s[k].id]
PosIn(s, i) == CHOOSE k \in 1..Len(s) : s[k].id = i
\* s with its element at position k taken out.
Drop(s, k) == SubSeq(s, 1, k - 1) \o SubSeq(s, k + 1, Len(s))
\* The number of elements of s whose id is not i.
OthersCount(s, i) == Cardinality({k \in 1..Len(s) : s[k].id # i})
\* The timestamp a record sorts by: an absent created_at counts as 0.
Stamp(r) == IF r.created_at = NullTime THEN 0 ELSE r.created_at

\* C1: given a bulk read whose rows have pairwise distinct ids, the collection
\* never holds two records with the same id, whatever the interleaving of the
\* load's completion, live inserts, updates, deletes and local deletes.
C1_NoDuplicateIds ==
    \A i, j \in 1..Len(rows) : i # j => rows[i].id # rows[j].id

\* An insert arrived for an id the loaded collection already held.
C1_Witness ==
    /\ last.op = "INSERT"
    /\ Truthy(last.row.image_url)
    /\ last.row.id \in IdsOf(prev)
    /\ loadState = "ok"
    /\ Len(rows) > 2

\* C2 (as claimed): the bounded collection never exceeds 16 records, and after
\* more than 16 live inserts of distinct ids with increasing created_at and no
\* delete it holds exactly the 16 ids inserted last.
C2_Claim ==
    /\ Len(rows) <= Cap
    /\ burst > Cap =>
          IdsOf(rows) = {BurstRow(n).id : n \in (burst - Cap + 1)..burst}

\* C3: a live insert with an image is an upsert by id: the new record is first,
\* it is the only record with its id, the records behind it are the leading
\* other records of the previous collection in their previous order, and the
\* bounded variant keeps 16 of the list at most.
C3_InsertIsUpsert ==
    (last.op = "INSERT" /\ Truthy(last.row.image_url)) =>
        LET i == last.row.id
            others == OthersCount(prev, i)
        IN  /\ Len(rows) = IF variant = "bounded" THEN Min(Cap, others + 1)
                           ELSE others + 1
            /\ rows[1] = last.row
            /\ \A k \in 2..Len(rows) :
                  /\ rows[k].id # i
                  /\ rows[k].id \in IdsOf(prev)
                  /\ rows[k] = prev[PosIn(prev, rows[k].id)]
                  \* exactly k - 2 other records precede it in prev
                  /\ Cardinality({m \in 1..(PosIn(prev, rows[k].id) - 1) :
                                     prev[m].id # i}) = k - 2

\* A full bounded collection took in a record of a new id: its last record
\* was dropped.
C3_Witness ==
    /\ variant = "bounded"
    /\ last.op = "INSERT"
    /\ Truthy(last.row.image_url)
    /\ Len(prev) = Cap
    /\ last.row.id \notin IdsOf(prev)
    /\ Len(rows) = Cap

\* C4: a live insert whose image_url is null or empty leaves the collection as
\* it was, also when a record of that id is already held.
C4_AbsentUrlInsertIgnored ==
    (last.op = "INSERT" /\ ~Truthy(last.row.image_url)) => rows = prev

\* An insert with the empty string as image_url arrived for an id held.
C4_Witness ==
    /\ last.op = "INSERT"
    /\ last.row.image_url = EmptyUrl
    /\ last.row.id \in IdsOf(rows)
    /\ Len(rows) > 1

\* C5: a live update whose id no record has leaves the collection unchanged.
C5_UnknownUpdateIgnored ==
    (last.op = "UPDATE" /\ last.row.id \notin IdsOf(prev)) => rows = prev

\* An update with an image arrived for an id that a non-empty collection did
\* not hold.
C5_Witness ==
    /\ last.op = "UPDATE"
    /\ Truthy(last.row.image_url)
    /\ last.row.id \notin IdsOf(prev)
    /\ Len(prev) > 0

\* C6: a live update whose id a record has gives that record the event's
\* fields; the ids keep their number and order and every other record is as
\* it was.
C6_UpdateMergesInPlace ==
    (last.op = "UPDATE" /\ last.row.id \in IdsOf(prev)) =>
        /\ Len(rows) = Len(prev)
        /\ \A k \in 1..Len(prev) :
              IF prev[k].id = last.row.id
              THEN /\ rows[k].id = last.row.id
                   /\ rows[k].image_url = last.row.image_url
                   /\ rows[k].created_at = last.row.created_at
              ELSE rows[k] = prev[k]

\* An update changed a record that was not the first of the collection.
C6_Witness ==
    /\ last.op = "UPDATE"
    /\ last.row.id \in IdsOf(prev)
    /\ PosIn(prev, last.row.id) > 1
    /\ rows # prev

\* C7: a live delete takes out exactly the record of its id and keeps the
\* others in order; with no such record the collection is unchanged.
C7_DeleteRemovesOne ==
    (last.op = "DELETE") =>
        IF last.row.id \in IdsOf(prev)
        THEN rows = Drop(prev, PosIn(prev, last.row.id))
        ELSE rows = prev

\* A delete took a record out from between two others.
C7_Witness ==
    /\ last.op = "DELETE"
    /\ last.row.id \in IdsOf(prev)
    /\ PosIn(prev, last.row.id) > 1
    /\ PosIn(prev, last.row.id) < Len(prev)

\* The collection after the callback of a live insert or update.
Applied(op, p, e) ==
    IF op = "INSERT" THEN InsertedRows(variant, p, e) ELSE UpdateRows(p, e)

\* The insert and update events that carry the id of the event handled last.
SameIdEvents == {op \in {"INSERT", "UPDATE"} : TRUE} \X {e \in LiveRows : e.id = last.row.id}

\* C8 (as claimed): live insert and update are idempotent and commutative for
\* same-id events: with e1 the event just handled, handling e1 again changes
\* nothing, and for every insert or update e2 of the same id, e1 then e2 gives
\* the collection that e2 then e1 gives.
C8_Claim ==
    last.op \in {"INSERT", "UPDATE"} =>
        /\ Applied(last.op, rows, last.row) = rows
        /\ \A x \in SameIdEvents :
              Applied(x[1], rows, x[2])
                  = Applied(last.op, Applied(x[1], prev, x[2]), last.row)

\* C8 (amended): live insert and update are idempotent, and for two same-id
\* events the two orders of handling give the same sequence of ids and the
\* same records of every other id; the record of that id itself may differ.
C8_IdempotentSameIds ==
    last.op \in {"INSERT", "UPDATE"} =>
        /\ Applied(last.op, rows, last.row) = rows
        /\ \A x \in SameIdEvents :
              LET ab == Applied(x[1], rows, x[2])
                  ba == Applied(last.op, Applied(x[1], prev, x[2]), last.row)
              IN  /\ IdSeq(ab) = IdSeq(ba)
                  /\ \A k \in 1..Len(ab) : ab[k].id # last.row.id => ab[k] = ba[k]

\* The insert just handled was already reflected by the collection: handling
\* it a second time changed nothing.
C8_Witness ==
    /\ last.op = "INSERT"
    /\ Truthy(last.row.image_url)
    /\ Len(prev) > 1
    /\ prev[1] = last.row
    /\ rows = prev

\* C9: when handleDelete's request has answered, a success has taken the
\* record of that id out of the collection and nothing else, an error or an
\* exception has left the collection as it was, and in every case the id's
\* in-flight marker is cleared; a marker is set only while a request is out.
C9_LocalDelete ==
    /\ last.op = "ok" =>
          /\ last.row.id \notin IdsOf(rows)
          /\ rows = IF last.row.id \in IdsOf(prev)
                    THEN Drop(prev, PosIn(prev, last.row.id)) ELSE prev
    /\ last.op \in {"error", "throw"} => rows = prev
    /\ last.op \in Outcomes => last.row.id \notin deleting
    /\ deleting \subseteq pendingDel

\* The request failed and the record is still shown, its marker cleared.
C9_Witness ==
    /\ last.op = "error"
    /\ last.row.id \in IdsOf(rows)
    /\ deleting = {}

\* C10: in the bounded gallery slot i holds the i-th record of the collection
\* in descending created_at order, a null created_at counting as 0: the slots
\* assigned are 1..Len(rows), they hold exactly the records of the collection,
\* no slot holds a record newer than the slot before it, and the slots
\* rendered are the assigned ones.
C10_SlotProjection ==
    variant = "bounded" =>
        LET slotToRow == SlotToRow(rows)
            slots == DOMAIN slotToRow
        IN  /\ slots = 1..Len(rows)
            /\ \A k \in 1..Len(rows) : \E n \in slots : slotToRow[n] = rows[k]
            /\ \A n \in slots :
                  n > 1 => Stamp(slotToRow[n - 1]) >= Stamp(slotToRow[n])
            /\ VisibleIdx(rows) = {n - 1 : n \in slots}

\* The collection's order is not the slot order: its first record has no
\* created_at and a later one has, and some slots are left unassigned.
C10_Witness ==
    /\ variant = "bounded"
    /\ Len(rows) > 2
    /\ Len(rows) < Cap
    /\ rows[1].created_at = NullTime
    /\ \E k \in 2..Len(rows) : rows[k].created_at = MaxTime
    /\ SlotToRow(rows)[1].created_at = MaxTime

\* C11 (as claimed): no record whose image_url is absent is held in the
\* collection or assigned to a display slot, also after a live update that sets
\* the image_url of a record held to null.
C11_Claim ==
    LET slotToRow == SlotToRow(rows)
    IN  /\ \A k \in 1..Len(rows) : Truthy(rows[k].image_url)
        /\ \A n \in DOMAIN slotToRow : Truthy(slotToRow[n].image_url)

\* C13 (as claimed): when the bulk read fails, a user-visible error string is
\* set and the collection is what it was before, in the unbounded and in the
\* bounded gallery alike.
C13_Claim ==
    (last.op = "LOAD_FAIL") => (error # "null" /\ rows = prev)

\* ======================================================= layout editor
\* SettingPage of src/src/setting.tsx.  The file holds the page three times:
\* variant B (lines 45-246) renders the twenty frames of FRAME_IDS and fills
\* the ones storage does not have with defaultLayout; variant A (lines 510-801,
\* and the same code without the cleanup button at lines 275-479) renders the
\* frames storage returned and nothing else.

\* At most MaxUpserts upsert calls are awaiting their answer at once.
MaxUpserts == 1
\* In SpecConverge at most MaxOverlap upsert calls overlap.
MaxOverlap == 2
Layouts == {"A", "B"}

\* function defaultLayout(index)
DefaultLayout(index) ==
    LET baseW == Px(260)
        baseH == Px(180)
        margin == Px(16)
        cols == 4
        col == index % cols
        row == index \div cols
    IN  Geometry(col * (baseW + margin), row * (baseH + margin), baseW, baseH)

\* { ...prev, [id]: g }
Put(p, id, g) == [k \in (DOMAIN p) \cup {id} |-> IF k = id THEN g ELSE p[k]]

\* The `map` the load builds from the rows returned: rows whose id is falsy
\* are skipped.  Number() of a numeric column is the number itself.
LoadedMap(data) ==
    [id \in {r.id : r \in data} \ {NoId} |->
        LET it == CHOOSE r \in data : r.id = id
        IN  Geometry(it.x, it.y, it.w, it.h)]

\* Mutant: every frame gets its default rectangle.
FilledWithDefaults(map) == [id \in FrameIds |-> DefaultLayout(IndexOf(id))]

\* Variant B: next[id] = map[id] ?? defaultLayout(idx), for every FRAME_IDS id.
Filled(map) ==
    [id \in FrameIds |->
        IF id \in DOMAIN map THEN map[id] ELSE DefaultLayout(IndexOf(id))]

\* How the select answered: data, an error object, or a rejected await.
Answers == {"ok", "error", "throw"}

\* Whether the load calls setViews at all.  Variant A throws on an error and
\* its catch does not touch views; variant B has no try/catch: an error
\* object leaves `map` empty and the code goes on, a rejection ends the
\* function.
LoadInstalls(lay, answer) ==
    IF lay = "A" THEN answer = "ok" ELSE answer # "throw"

\* The mapping the load passes to setViews.
LoadedViews(lay, data, answer) ==
    LET map == IF answer = "ok" THEN LoadedMap(data) ELSE NoViews
    IN  IF lay = "A" THEN map ELSE Filled(map)

\* statusMsg after the load: only variant A's catch sets it.
LoadStatus(lay, msg, answer) ==
    IF lay = "A" /\ answer # "ok" THEN "load failed" ELSE msg

\* The frames on screen: variant A maps over Object.entries(views), variant B
\* over FRAME_IDS.
Rendered(lay, p) == IF lay = "A" THEN DOMAIN p ELSE FrameIds

Rounded(v) ==
    Geometry(MathRound(v.x), MathRound(v.y), MathRound(v.w), MathRound(v.h))

\* The payload the timer callback builds from the mapping it closed over.
Payload(lay, p) ==
    IF lay = "A"
    THEN {SettingLayoutRow(id, Rounded(p[id])) : id \in DOMAIN p}
    ELSE {SettingLayoutRow(id, Rounded(IF id \in DOMAIN p THEN p[id]
                                       ELSE DefaultLayout(IndexOf(id)))) :
             id \in FrameIds}

\* upsert(payload, { onConflict: 'id' }) on the table.
Upserted(table, payload) ==
    {r \in table : r.id \notin {q.id : q \in payload}} \cup payload

\* views[id] ?? defaultLayout(idx): the geometry a frame is drawn with.
\* (Variant A draws a frame only for an entry of the mapping.)
Drawn(lay, p, id) ==
    IF id \in DOMAIN p THEN p[id] ELSE DefaultLayout(IndexOf(id))

\* Mutant: every frame is raised.
ZIndexAllRaised(top, id) == 1000

\* zIndex: topId === id ? 1000 : 1
ZIndex(top, id) == IF top = id THEN 1000 ELSE 1

\* cardEl.getBoundingClientRect(): the frame is positioned absolutely at
\* (v.x, v.y) inside the scrolling canvas, so its screen position is the
\* canvas origin, less the scroll offset, plus its geometry.
CardRect(lay, p, id, org, scr) ==
    LET v == Drawn(lay, p, id)
        left == org.x - scr.x + v.x
        top == org.y - scr.y + v.y
    IN  [left |-> left, top |-> top, right |-> left + v.w, bottom |-> top + v.h]

MouseEvent(x, y, button) == [clientX |-> x, clientY |-> y, button |-> button]

\* isResizeGrip
IsResizeGrip(e, cardRect) ==
    LET gripThreshold == Px(GripThreshold)
        nearRight == cardRect.right - e.clientX <= gripThreshold
        nearBottom == cardRect.bottom - e.clientY <= gripThreshold
    IN  nearRight /\ nearBottom

\* Mutant: any button opens a session.
OpensSessionAnyButton(e, cardRect) == ~IsResizeGrip(e, cardRect)

\* onMouseDown reaches setDragging: left button, outside the grip.  (canvasRef
\* is set while the page is mounted.)
OpensSession(e, cardRect) == e.button = 0 /\ ~IsResizeGrip(e, cardRect)

\* The object onMouseDown passes to setDragging.
Session(id, e, cardRect, org, scr) ==
    [id |-> id,
     offsetX |-> e.clientX - cardRect.left,
     offsetY |-> e.clientY - cardRect.top,
     canvasLeft |-> org.x,
     canvasTop |-> org.y,
     scrollLeft |-> scr.x,
     scrollTop |-> scr.y]

\* nextX, nextY of onMove.
NextXY(d, e) ==
    [x |-> e.clientX - d.canvasLeft + d.scrollLeft - d.offsetX,
     y |-> e.clientY - d.canvasTop + d.scrollTop - d.offsetY]

\* The updater onMove passes to setViews.
Moved(p, d, e) ==
    LET cur == IF d.id \in DOMAIN p THEN p[d.id]
               ELSE Geometry(0, 0, Px(260), Px(180))
        next == NextXY(d, e)
    IN  IF /\ MathRound(cur.x) = MathRound(next.x)
           /\ MathRound(cur.y) = MathRound(next.y)
        THEN p
        ELSE Put(p, d.id, [cur EXCEPT !.x = next.x, !.y = next.y])

\* The updater the ResizeObserver callback passes to setViews; rect is
\* entries[0].contentRect.
Resized(p, id, rect) ==
    LET cur == IF id \in DOMAIN p THEN p[id]
               ELSE Geometry(0, 0, rect.width, rect.height)
        w == MathRound(rect.width)
        h == MathRound(rect.height)
    IN  IF MathRound(cur.w) = w /\ MathRound(cur.h) = h
        THEN p
        ELSE Put(p, id, [cur EXCEPT !.w = w, !.h = h])

\* ------------------------------------------------ layout editor: inputs

\* What the setting_layouts table may hold when the page is mounted: nothing;
\* or a row for frame-2 with a fractional width, a row whose id is empty and a
\* row under a key that is no frame-N.
LayoutTables ==
    {{},
     {SettingLayoutRow(FrameId(2), Geometry(Px(10), Px(10), Px(260) - 4, Px(180))),
      SettingLayoutRow(NoId, Geometry(Px(1), Px(1), Px(1), Px(1))),
      SettingLayoutRow("x", Geometry(Px(500), Px(500), Px(50), Px(50)))}}

\* Where the canvas sits on screen, and how far it may be scrolled.
Origins == {[x |-> Px(100), y |-> Px(50)]}
Scrolls == {[x |-> 0, y |-> 0], [x |-> Px(20), y |-> 0]}

\* The frames the user presses, and the one the user drags about and resizes.
PressIds == {FrameId(1), FrameId(2)}
ResizeIds == {FrameId(2)}

\* Where in a frame the button goes down: 10 px right of and below its top
\* left corner ("body"), on the corner of the grip square ("grip"), and a
\* tenth of a pixel left of that square ("edge").
DownPoint(c, place) ==
    CASE place = "body" -> [x |-> c.left + Px(10), y |-> c.top + Px(10)]
      [] place = "grip" -> [x |-> c.right - Px(GripThreshold),
                            y |-> c.bottom - Px(GripThreshold)]
      [] place = "edge" -> [x |-> c.right - Px(GripThreshold) - 1,
                            y |-> c.bottom - Px(GripThreshold)]

\* event.button: 0 is the primary button.
Buttons == {0, 2}

\* Where the pointer moves to: (200, 150), (110, 60), (200.4, 150), and
\* (386, 60), where the button goes down on the body of a frame drawn at
\* (276, 0).
MovePoints ==
    {[x |-> Px(200), y |-> Px(150)],
     [x |-> Px(110), y |-> Px(60)],
     [x |-> Px(200) + 4, y |-> Px(150)],
     [x |-> Px(386), y |-> Px(60)]}

\* The content-box sizes the observer reports: 300 x 200 and 259.6 x 180.
ContentRects ==
    {[width |-> Px(300), height |-> Px(200)],
     [width |-> Px(260) - 4, height |-> Px(180)]}

\* Where the pointer moves to in SpecConverge: (200, 150) and (110, 60).
ConvergePoints ==
    {[x |-> Px(200), y |-> Px(150)], [x |-> Px(110), y |-> Px(60)]}

\* The clock advances in steps of half the debounce delay.
TickMs == Debounce \div 2

\* ------------------------------------------------ layout editor: actions

\* Mutant: the running timer is left to run.
InstallWithoutReset(v) ==
    /\ views' = v
    /\ timer' = IF timer = NoTimer THEN Debounce ELSE timer
    /\ quiet' = 0
    /\ calls' = 0
    /\ muts' = IF timer = NoTimer THEN 1 ELSE Min(muts + 1, 2)
    /\ sent' = {}

\* setViews with a new object: the component renders again, the debounce
\* effect's cleanup clears the timer and the effect sets a new one.
Install(v) ==
    /\ views' = v
    /\ timer' = Debounce
    /\ quiet' = 0
    /\ calls' = 0
    /\ muts' = IF timer = NoTimer THEN 1 ELSE Min(muts + 1, 2)
    /\ sent' = {}

\* No setViews, or an updater that returned `prev` itself: no render.
Keep == UNCHANGED <<views, timer, quiet, calls, muts, sent>>

\* setViews(updater): React bails out when the updater returns its argument.
SetViews(v) == IF v = views THEN Keep ELSE Install(v)

EditorInit ==
    /\ layout \in Layouts
    /\ layouts \in LayoutTables
    /\ views = NoViews
    /\ dragging = NoSession
    /\ statusMsg = ""
    /\ topId = NoTop
    /\ isLoading = (layout = "A")
    /\ layoutLoad = "pending"
    /\ timer = Debounce
    /\ inFlight = <<>>
    /\ scroll = [x |-> 0, y |-> 0]
    /\ origin \in Origins
    /\ quiet = 0
    /\ calls = 0
    /\ muts = 0
    /\ sent = {}
    /\ NoCleanup
    /\ mounted = TRUE
    /\ channel = "none"
    /\ Attached(Rendered(layout, NoViews))
    /\ NoFrames
    /\ prev = <<>>
    /\ last = Ran("mount", NoRow)
    \* the gallery is not mounted
    /\ variant = "none"
    /\ rows = <<>>
    /\ loadState = "ok"
    /\ loading = FALSE
    /\ error = "null"
    /\ deleting = {}
    /\ pendingDel = {}
    /\ burst = 0

\* The select issued at mount answers.
LayoutLoad(answer) ==
    /\ layoutLoad = "pending"
    /\ layoutLoad' = "done"
    /\ IF LoadInstalls(layout, answer)
       THEN Install(LoadedViews(layout, layouts, answer))
       ELSE Keep
    /\ statusMsg' = LoadStatus(layout, statusMsg, answer)
    /\ isLoading' = IF layout = "A" THEN FALSE ELSE isLoading
    /\ UNCHANGED <<layout, layouts, dragging, topId, inFlight, scroll, origin>>
    /\ UNCHANGED <<galleryVars, prev, last, pageVars>>

\* onMouseDown of frame id.
PointerDown(id, e) ==
    /\ id \in Rendered(layout, views)
    /\ LET cardRect == CardRect(layout, views, id, origin, scroll)
       IN  dragging' = IF OpensSession(e, cardRect)
                       THEN Session(id, e, cardRect, origin, scroll)
                       ELSE dragging
    /\ topId' = id
    /\ Keep
    /\ UNCHANGED <<layout, layouts, statusMsg, isLoading, layoutLoad, inFlight,
                   scroll, origin>>
    /\ UNCHANGED <<galleryVars, prev, last, pageVars>>

\* The window's mousemove listener.
PointerMove(e) ==
    /\ IF dragging = NoSession THEN Keep
       ELSE SetViews(Moved(views, dragging, e))
    /\ UNCHANGED <<layout, layouts, dragging, statusMsg, topId, isLoading,
                   layoutLoad, inFlight, scroll, origin>>
    /\ UNCHANGED <<galleryVars, prev, last, pageVars>>

\* The window's mouseup listener.
PointerUp ==
    /\ dragging' = NoSession
    /\ Keep
    /\ UNCHANGED <<layout, layouts, statusMsg, topId, isLoading, layoutLoad,
                   inFlight, scroll, origin>>
    /\ UNCHANGED <<galleryVars, prev, last, pageVars>>

\* The ResizeObserver callback of frame id.
Resize(id, rect) ==
    /\ id \in Rendered(layout, views)
    /\ SetViews(Resized(views, id, rect))
    /\ UNCHANGED <<layout, layouts, dragging, statusMsg, topId, isLoading,
                   layoutLoad, inFlight, scroll, origin>>
    /\ UNCHANGED <<galleryVars, prev, last, pageVars>>

\* The user scrolls the canvas.
Scroll(scr) ==
    /\ scr # scroll
    /\ scroll' = scr
    /\ Keep
    /\ UNCHANGED <<layout, layouts, dragging, statusMsg, topId, isLoading,
                   layoutLoad, inFlight, origin>>
    /\ UNCHANGED <<galleryVars, prev, last, pageVars>>

\* TickMs pass.  A timer fires when it is due: time does not pass it by.
Tick ==
    /\ timer = NoTimer \/ timer >= TickMs
    /\ quiet < Debounce
    /\ timer' = IF timer = NoTimer THEN NoTimer ELSE timer - TickMs
    /\ quiet' = Min(quiet + TickMs, Debounce)
    /\ UNCHANGED <<layout, layouts, views, dragging, statusMsg, topId,
                   isLoading, layoutLoad, inFlight, scroll, origin, calls,
                   muts, sent>>
    /\ UNCHANGED <<galleryVars, prev, last, pageVars>>

\* The timer callback up to its await: the payload is built and, unless it is
\* empty, the upsert is sent.  At most `limit` calls await their answer.
FlushUpTo(limit) ==
    /\ timer = 0
    /\ timer' = NoTimer
    /\ LET payload == Payload(layout, views)
       IN  IF payload = {}
           THEN UNCHANGED <<inFlight, calls, sent>>
           ELSE /\ Len(inFlight) < limit
                /\ inFlight' = Append(inFlight, payload)
                /\ calls' = calls + 1
                /\ sent' = payload
    /\ UNCHANGED <<layout, layouts, views, dragging, statusMsg, topId,
                   isLoading, layoutLoad, scroll, origin, quiet, muts>>
    /\ UNCHANGED <<galleryVars, prev, last, pageVars>>

Flush == FlushUpTo(MaxUpserts)

\* Mutant: a failed upsert is only logged.
UpsertStatusSilent(msg, outcome) == msg

\* statusMsg once the upsert has answered.
UpsertStatus(msg, outcome) ==
    CASE outcome = "ok" -> msg
      [] outcome = "error" -> "save failed"
      [] outcome = "throw" -> "save exception"

\* The timer callback from the await's answer to its end.
UpsertDone(k, outcome) ==
    /\ k \in 1..Len(inFlight)
    /\ inFlight' = Drop(inFlight, k)
    /\ layouts' = IF outcome = "ok" THEN Upserted(layouts, inFlight[k])
                  ELSE layouts
    /\ statusMsg' = UpsertStatus(statusMsg, outcome)
    /\ Keep
    /\ UNCHANGED <<layout, dragging, topId, isLoading, layoutLoad, scroll,
                   origin>>
    /\ UNCHANGED <<galleryVars, prev, last, pageVars>>

\* The mousedown events on the frames `ids` at the places `places`, with
\* either button, as the page is laid out now.
Presses(ids, places) ==
    {[id |-> id,
      e |-> LET pt == DownPoint(CardRect(layout, views, id, origin, scroll),
                                place)
            IN  MouseEvent(pt.x, pt.y, b)] :
        id \in ids, place \in places, b \in Buttons}

\* SpecEditor: the page with the backend answering in every way.  The user
\* presses the frame on its body and on its grip, with either button, drags
\* it to one place and resizes it to two sizes; the canvas is not scrolled.
EditorNext ==
    \/ \E answer \in Answers : LayoutLoad(answer)
    \/ \E press \in Presses(ResizeIds, {"body", "grip"}) :
          PointerDown(press.id, press.e)
    \/ PointerMove(MouseEvent(Px(200), Px(150), 0))
    \/ PointerUp
    \/ \E id \in ResizeIds, rect \in ContentRects : Resize(id, rect)
    \/ Tick
    \/ Flush
    \/ \E k \in 1..Len(inFlight), o \in Outcomes : UpsertDone(k, o)

SpecEditor == EditorInit /\ [][EditorNext]_vars

\* SpecPointer: the pointer alone, within the first TickMs after the page is
\* mounted.  The user presses the frame anywhere, with either button, moves
\* the pointer to every point and scrolls the canvas; the select answers or
\* its await rejects.
PointerNext ==
    \/ \E answer \in {"ok", "throw"} : LayoutLoad(answer)
    \/ \E press \in Presses(PressIds, {"body", "grip", "edge"}) :
          PointerDown(press.id, press.e)
    \/ \E pt \in MovePoints : PointerMove(MouseEvent(pt.x, pt.y, 0))
    \/ PointerUp
    \/ \E scr \in Scrolls : Scroll(scr)

SpecPointer == EditorInit /\ [][PointerNext]_vars

\* SpecConverge: variant A with a backend that answers every upsert with
\* success, and upsert calls that overlap.  The user drags the frame to two
\* places; timers fire when due and every call is answered in the end, the
\* calls in flight in any order.
ConvergeInit == EditorInit /\ layout = "A"

UpsertAnswered == \E k \in 1..Len(inFlight) : UpsertDone(k, "ok")

ConvergeNext ==
    \/ \E answer \in Answers : LayoutLoad(answer)
    \/ \E press \in Presses(ResizeIds, {"body"}) :
          PointerDown(press.id, press.e)
    \/ \E pt \in ConvergePoints : PointerMove(MouseEvent(pt.x, pt.y, 0))
    \/ PointerUp
    \/ Tick
    \/ FlushUpTo(MaxOverlap)
    \/ UpsertAnswered

SpecConverge ==
    /\ ConvergeInit
    /\ [][ConvergeNext]_vars
    /\ WF_vars(Tick)
    /\ WF_vars(FlushUpTo(MaxOverlap))
    /\ WF_vars(UpsertAnswered)

\* ------------------------------------------------ layout editor: claims

\* n is the whole number of pixels nearest to v, halves going up.
Nearest(n, v) == n % 10 = 0 /\ (n - v) \in -4..5

\* C14: a burst of mapping mutations less than 400 ms apart, followed by 400 ms
\* without one, causes exactly one upsert call, at the end of the quiet period
\* and not before, and its payload holds every entry of the mapping as it is
\* then, with x, y, w, h rounded to whole pixels.
C14_DebouncedPersist ==
    /\ calls <= 1
    /\ timer # NoTimer => (calls = 0 /\ timer = Debounce - quiet)
    /\ (timer = NoTimer /\ muts > 0 /\ DOMAIN views # {}) =>
          (calls = 1 /\ quiet = Debounce)
    /\ calls = 1 =>
          \A id \in DOMAIN views :
             \E r \in sent :
                /\ r.id = id
                /\ Nearest(r.x, views[id].x)
                /\ Nearest(r.y, views[id].y)
                /\ Nearest(r.w, views[id].w)
                /\ Nearest(r.h, views[id].h)

\* A burst of two mutations or more has been flushed, and the mapping holds a
\* width that is no whole number of pixels.
C14_Witness ==
    /\ calls = 1
    /\ muts = 2
    /\ timer = NoTimer
    /\ \E id \in DOMAIN views : views[id].w % 10 # 0

\* The pointer is within 18 px of the frame's right edge and of its bottom
\* edge: inside the 18 x 18 grip.
InGrip(e, c) ==
    /\ c.right - e.clientX <= Px(GripThreshold)
    /\ c.bottom - e.clientY <= Px(GripThreshold)

\* What C15 asks of one step of the page.
C15_Step ==
    LET presses == Presses(PressIds, {"body", "grip", "edge"})
        Card(id) == CardRect(layout, views, id, origin, scroll)
        primary(press) == press.e.button = 0 /\ ~InGrip(press.e, Card(press.id))
    IN  \* the session is idle, or dragging one frame on screen
        /\ dragging = NoSession \/ dragging.id \in Rendered(layout, views)
        \* only a pointer-up or a primary pointer-down outside the grip
        \* changes the session; the down opens the session of its frame
        /\ dragging' # dragging =>
              \/ PointerUp
              \/ \E press \in presses :
                    /\ PointerDown(press.id, press.e)
                    /\ primary(press)
                    /\ dragging'.id = press.id
        \* a pointer-down with another button or inside the grip opens none
        /\ \A press \in presses :
              (PointerDown(press.id, press.e) /\ ~primary(press)) =>
                  dragging' = dragging
        \* a pointer-move keeps the session
        /\ \A pt \in MovePoints :
              PointerMove(MouseEvent(pt.x, pt.y, 0)) => dragging' = dragging
        \* a pointer-up ends it
        /\ PointerUp => dragging' = NoSession

\* C15: the drag session is idle or dragging one frame; idle becomes
\* dragging(f) only on a primary-button pointer-down over f outside its
\* 18 x 18 grip; a pointer-down with another button or inside the grip opens
\* no session; a pointer-move keeps the session; a pointer-up makes it idle;
\* no other event (timer, load, persist, resize) changes it.
C15_DragSession == [][C15_Step]_vars

\* A session is open after the timer expired, an upsert failed and the
\* select answered.
C15_Witness ==
    /\ dragging # NoSession
    /\ dragging.id = FrameId(2)
    /\ timer = NoTimer
    /\ statusMsg = "save failed"
    /\ layoutLoad = "done"

\* The whole number of pixels nearest to v.
RoundOf(v) == CHOOSE n \in (v - 4)..(v + 5) : n % 10 = 0

\* C16 (as claimed): while a session for frame f is open, a pointer-move to
\* (pointerX, pointerY) sets f's position to
\* (pointerX - canvasOriginX + scrollX - pointerOffsetX,
\*  pointerY - canvasOriginY + scrollY - pointerOffsetY),
\* with the origin, scroll offset and pointer offset captured at pointer-down.
\* Stated of the mapping onMove's updater returns, for every point the pointer
\* may move to next.
C16_Claim ==
    dragging # NoSession =>
        \A pt \in MovePoints :
           LET after == Moved(views, dragging, MouseEvent(pt.x, pt.y, 0))
               f == Drawn(layout, after, dragging.id)
           IN  /\ f.x = pt.x - dragging.canvasLeft + dragging.scrollLeft
                            - dragging.offsetX
               /\ f.y = pt.y - dragging.canvasTop + dragging.scrollTop
                            - dragging.offsetY

\* C17 (as claimed): when a frame's observed content-box size is (ow, oh), its
\* (width, height) becomes (round(ow), round(oh)) with x and y unchanged; when
\* these equal the frame's rounded current width and height, the mapping is
\* not mutated (and so no persist is scheduled or rescheduled); width and
\* height are never negative after a resize.  Stated of the mapping the
\* observer callback's updater returns, for every size it may report next.
C17_Claim ==
    \A id \in ResizeIds \cap Rendered(layout, views), rect \in ContentRects :
       LET after == Resized(views, id, rect)
           cur == Drawn(layout, views, id)
           new == Drawn(layout, after, id)
           w == RoundOf(rect.width)
           h == RoundOf(rect.height)
       IN  /\ IF w = RoundOf(cur.w) /\ h = RoundOf(cur.h)
              THEN after = views
              ELSE new = Geometry(cur.x, cur.y, w, h)
           /\ new.w >= 0
           /\ new.h >= 0

\* C18: when a debounced upsert returns an error or throws, a status message
\* is set, the mapping is left exactly as it was, and the failure schedules no
\* retry: no timer is set and no upsert is issued by it.
C18_PersistFailure ==
    [][\A k \in 1..Len(inFlight), outcome \in {"error", "throw"} :
          UpsertDone(k, outcome) =>
              /\ statusMsg' \in {"save failed", "save exception"}
              /\ views' = views
              /\ timer' = timer
              /\ calls' = calls
              /\ Len(inFlight') = Len(inFlight) - 1]_vars

\* An upsert threw after the timer had expired: the message is up, the mapping
\* is there, no timer runs and nothing is in flight.
C18_Witness ==
    /\ statusMsg = "save exception"
    /\ DOMAIN views # {}
    /\ timer = NoTimer
    /\ calls = 1
    /\ inFlight = <<>>

\* The ids frame-1 .. frame-20.
TwentyFrames ==
    {"frame-1", "frame-2", "frame-3", "frame-4", "frame-5", "frame-6",
     "frame-7", "frame-8", "frame-9", "frame-10", "frame-11", "frame-12",
     "frame-13", "frame-14", "frame-15", "frame-16", "frame-17", "frame-18",
     "frame-19", "frame-20"}

\* The default grid rectangle of frame-n: 4 columns of 260 x 180 cells, 16 px
\* apart.
GridRect(n) ==
    Geometry(((n - 1) % 4) * 2760, ((n - 1) \div 4) * 1960, 2600, 1800)

\* The number n of the id frame-n.
FrameNumber(id) == CHOOSE n \in 1..20 : id = "frame-" \o ToString(n)

\* C19: after a successful load, variant A's mapping has exactly the ids of
\* the returned rows, rows with an absent id skipped, with their stored x, y,
\* w, h; variant B's mapping has exactly the ids frame-1 .. frame-20, each with
\* its stored rectangle if a row was returned for it and its default grid
\* rectangle otherwise.
C19_LoadSuccess ==
    [][LayoutLoad("ok") =>
          LET stored == {r \in layouts : r.id # NoId}
              Has(id) == \E r \in stored : r.id = id
              Row(id) == CHOOSE r \in stored : r.id = id
              AsStored(id) ==
                  /\ views'[id].x = Row(id).x
                  /\ views'[id].y = Row(id).y
                  /\ views'[id].w = Row(id).w
                  /\ views'[id].h = Row(id).h
          IN  IF layout = "A"
              THEN /\ DOMAIN views' = {r.id : r \in stored}
                   /\ \A id \in DOMAIN views' : AsStored(id)
              ELSE /\ DOMAIN views' = TwentyFrames
                   /\ \A id \in TwentyFrames :
                         IF Has(id) THEN AsStored(id)
                         ELSE views'[id] = GridRect(FrameNumber(id))]_vars

\* Variant B has loaded: frame-2 has the stored rectangle, with its fractional
\* width, frame-20 its default one, and the stored key that is no frame-N is
\* not in the mapping.
C19_Witness ==
    /\ layout = "B"
    /\ layoutLoad = "done"
    /\ DOMAIN views = TwentyFrames
    /\ views["frame-2"] = Geometry(100, 100, 2596, 1800)
    /\ views["frame-20"] = Geometry(8280, 7840, 2600, 1800)

\* C20 (as claimed): when the bulk read of the geometry table fails, the
\* mapping is left empty and a status message is surfaced, in both variants.
C20_Claim ==
    [][\A answer \in {"error", "throw"} :
          LayoutLoad(answer) =>
              /\ views = NoViews => views' = NoViews
              /\ statusMsg' # ""]_vars


\* ------------------------------------------------------- duplicate cleanup
\* handleCleanup (src/src/setting.tsx lines 642-704) of the SettingPage at
\* lines 510-801, started by the button at lines 710-713.

\* A lockeddata table of more than MaxLocked rows is read in id order only.
MaxShuffled == 4
\* The large lockeddata table holds one group of MaxLocked rows.
MaxLocked == 502
\* const chunkSize = 500
ChunkSize == 500

\* a.created_at ? Date.parse(a.created_at) : 0
ParsedTime(c) == IF c = NullTime THEN 0 ELSE c

\* A grouping that keeps an absent key apart from the key ''.
NfcKeyNullApart(row) == row.nfc_id

\* String(row.nfc_id ?? '')
NfcKey(row) == IF row.nfc_id = NullNfc THEN "" ELSE row.nfc_id

\* The elements of a sequence.
Range(s) == {s[k] : k \in DOMAIN s}

\* The positions at which a key of byNfc is created: the first row of each key.
FirstAt(lockedRows) ==
    {k \in DOMAIN lockedRows :
        \A j \in 1..(k - 1) : NfcKey(lockedRows[j]) # NfcKey(lockedRows[k])}

\* byNfc[key]: the rows of the key, in the order read.
Group(lockedRows, key) == SelectSeq(lockedRows, LAMBDA row : NfcKey(row) = key)

\* rows.sort((a, b) => tb - ta): descending by created_at, and stable, so a
\* row's place is one more than the number of rows that are newer, or as old
\* and in front of it.
SortedDesc(members) ==
    LET n == Len(members)
        Time(k) == ParsedTime(members[k].created_at)
        Before(k) == {j \in 1..n : \/ Time(j) > Time(k)
                                   \/ Time(j) = Time(k) /\ j < k}
        place == [k \in 1..n |-> Cardinality(Before(k)) + 1] \o <<>>
    IN  [p \in 1..n |-> members[CHOOSE k \in 1..n : place[k] = p]] \o <<>>

\* Mutant: the oldest rows go and the newest stays.
NewerOnesKeepNewest(members) ==
    IF Len(members) <= 1 THEN <<>>
    ELSE LET sorted == SortedDesc(members)
         IN  [k \in 1..(Len(members) - 1) |-> sorted[k + 1].id]

\* What one group adds to idsToDelete: rows.slice(0, rows.length - 1) of the
\* sorted group, nothing for a group of one.
NewerOnes(members) ==
    IF Len(members) <= 1 THEN <<>>
    ELSE LET sorted == SortedDesc(members)
         IN  [k \in 1..(Len(members) - 1) |-> sorted[k].id]

\* Object.values(byNfc).forEach(...): the groups in the order their keys were
\* created, from the key created at position `from` on.
RECURSIVE IdsFrom(_, _)
IdsFrom(lockedRows, from) ==
    LET later == {k \in FirstAt(lockedRows) : k >= from}
    IN  IF later = {} THEN <<>>
        ELSE LET k == CHOOSE m \in later : \A n \in later : m <= n
             IN  NewerOnes(Group(lockedRows, NfcKey(lockedRows[k])))
                     \o IdsFrom(lockedRows, k + 1)

\* idsToDelete, from the rows the select returned.
IdsToDelete(lockedRows) == IdsFrom(lockedRows, 1)

\* Mutant: a chunk runs one identifier into the next.
ChunkOverlapping(ids, i) == SubSeq(ids, i + 1, Min(i + ChunkSize + 1, Len(ids)))

\* idsToDelete.slice(i, i + chunkSize)
Chunk(ids, i) == SubSeq(ids, i + 1, Min(i + ChunkSize, Len(ids)))

\* Mutant: only a rejected await stops the cleanup.
ThrownOnReject(outcome) == outcome = "throw"

\* if (error) throw error, or the await itself rejecting.
Thrown(outcome) == outcome # "ok"

\* Mutant: the list of identifiers comes out empty.
CurIdListEmpty(currentIds) == {}

\* (currentIds ?? []).map((r) => r.id).filter(Boolean); the ids of the table
\* are non-empty strings.
CurIdList(currentIds) == {id \in currentIds : id # ""}

\* delete().in('id', ids) on a table of rows.
WithoutIds(table, ids) == {row \in table : row.id \notin ids}

\* The orders in which select may return the rows of a table: every order for
\* a small table, the id order (ids 1..n) for a large one.
ReadOrders(table) ==
    LET n == Cardinality(table)
    IN  IF n <= MaxShuffled
        THEN {q \in [1..n -> table] : \A j, k \in 1..n : j # k => q[j] # q[k]}
        ELSE {[k \in 1..n |-> CHOOSE row \in table : row.id = k]}

\* --- inputs

\* The lockeddata tables at mount: the three rows {1:A:t1, 2:A:t2 > t1,
\* 3:B:t3}, a group with equal and absent created_at next to a row whose
\* key is null, and rows whose key is null or '' with no other row.
LockedTables ==
    { {LockedRow(1, "A", 1), LockedRow(2, "A", 2), LockedRow(3, "B", 3)},
      {LockedRow(1, "A", NullTime), LockedRow(2, "A", 1),
       LockedRow(3, "A", NullTime), LockedRow(4, NullNfc, 2)},
      {LockedRow(1, NullNfc, 2), LockedRow(2, "", 1), LockedRow(3, NullNfc, 3)} }

\* A large lockeddata table: one group of MaxLocked rows, the older the smaller
\* the id, and a group of one.
LargeLockedTable ==
    {LockedRow(k, "A", k) : k \in 1..MaxLocked}
        \cup {LockedRow(MaxLocked + 1, "B", 1)}

\* The ids of the currentdata rows at mount, and the one another client adds.
CurrentTables == {{}, {"c1"}}
OtherCurrentIds == {"c2"}

\* --- actions

\* The await a handleCleanup call is left at.
At(r, at, run) == cleanup' = [cleanup EXCEPT ![r] = [run EXCEPT !.at = at]]

\* `run` with one more remote call issued.
Issuing(run, call) == [run EXCEPT !.issued = Append(@, call)]

\* The catch block.
Fail(r) ==
    /\ At(r, "failed", cleanup[r])
    /\ statusMsg' = "cleanup failed"
    /\ UNCHANGED <<currentdata, lockeddata>>

\* The last statement of the try block: the closing message with its counts.
Finished(run) ==
    [run EXCEPT !.at = "done",
                !.count = <<Cardinality(run.curIdList), Len(run.idsToDelete)>>]

\* Not running: a click may use this call slot.
Free(r) == cleanup[r].at \in {"idle", "done", "failed"}

\* The button's onClick: handleCleanup up to its first await.
CleanupClick(r) ==
    /\ layout = "A"
    /\ Free(r)
    /\ \A q \in RunIds : q < r => ~Free(q)
    /\ At(r, "curSel", Issuing(IdleRun, "curSel"))
    /\ statusMsg' = "cleaning"
    /\ UNCHANGED <<currentdata, lockeddata>>

\* From the answer of the currentdata select to the next await.
CurSelDone(r, outcome) ==
    /\ cleanup[r].at = "curSel"
    /\ IF Thrown(outcome) THEN Fail(r)
       ELSE LET curIdList == CurIdList(currentdata)
                run == [cleanup[r] EXCEPT !.curIdList = curIdList]
            IN  /\ IF curIdList # {}
                   THEN At(r, "curDel", Issuing(run, "curDel"))
                   ELSE At(r, "lockSel", Issuing(run, "lockSel"))
                /\ UNCHANGED <<currentdata, lockeddata, statusMsg>>

\* From the answer of the currentdata delete to the next await.
CurDelDone(r, outcome) ==
    /\ cleanup[r].at = "curDel"
    /\ IF Thrown(outcome) THEN Fail(r)
       ELSE /\ currentdata' = currentdata \ cleanup[r].curIdList
            /\ At(r, "lockSel", Issuing(cleanup[r], "lockSel"))
            /\ UNCHANGED <<lockeddata, statusMsg>>

\* From the answer of the lockeddata select to the first chunk's await, or to
\* the end when nothing is to be deleted.
LockSelDone(r, outcome, lockedRows) ==
    /\ cleanup[r].at = "lockSel"
    /\ IF Thrown(outcome) THEN Fail(r)
       ELSE LET ids == IdsToDelete(lockedRows)
                run == [cleanup[r] EXCEPT !.idsToDelete = ids, !.i = 0]
            IN  /\ IF Len(ids) > 0
                   THEN /\ At(r, "lockDel",
                              [Issuing(run, "lockDel") EXCEPT
                                  !.batches = Append(@, Chunk(ids, 0))])
                        /\ statusMsg' = statusMsg
                   ELSE /\ cleanup' = [cleanup EXCEPT ![r] = Finished(run)]
                        /\ statusMsg' = "cleanup done"
                /\ UNCHANGED <<currentdata, lockeddata>>

\* From the answer of a chunk's delete to the next chunk's await, or to the
\* end after the last chunk.
LockDelDone(r, outcome) ==
    /\ cleanup[r].at = "lockDel"
    /\ IF Thrown(outcome) THEN Fail(r)
       ELSE LET ids == cleanup[r].idsToDelete
                i == cleanup[r].i + ChunkSize
                run == [cleanup[r] EXCEPT !.i = i]
            IN  /\ lockeddata' =
                       WithoutIds(lockeddata, Range(Chunk(ids, cleanup[r].i)))
                /\ IF i < Len(ids)
                   THEN /\ At(r, "lockDel",
                              [Issuing(run, "lockDel") EXCEPT
                                  !.batches = Append(@, Chunk(ids, i))])
                        /\ statusMsg' = statusMsg
                   ELSE /\ cleanup' = [cleanup EXCEPT ![r] = Finished(run)]
                        /\ statusMsg' = "cleanup done"
                /\ UNCHANGED currentdata

\* Another client adds a row to currentdata.
CurrentInsert(id) ==
    /\ id \notin currentdata
    /\ currentdata' = currentdata \cup {id}
    /\ UNCHANGED <<lockeddata, cleanup, statusMsg>>

\* What handleCleanup leaves alone.
CleanupKeeps ==
    /\ UNCHANGED <<layout, layouts, views, dragging, topId, isLoading,
                   layoutLoad, timer, inFlight, scroll, origin, quiet, calls,
                   muts, sent>>
    /\ UNCHANGED <<galleryVars, prev, last, lifeVars, frameVars>>

\* The SettingPage with the cleanup button, its load answered with no rows and
\* its first timer expired.
CleanupMounted ==
    /\ layout = "A"
    /\ layouts = {}
    /\ views = NoViews
    /\ dragging = NoSession
    /\ statusMsg = ""
    /\ topId = NoTop
    /\ isLoading = FALSE
    /\ layoutLoad = "done"
    /\ timer = NoTimer
    /\ inFlight = <<>>
    /\ scroll = [x |-> 0, y |-> 0]
    /\ origin \in Origins
    /\ quiet = Debounce
    /\ calls = 0
    /\ muts = 0
    /\ sent = {}
    /\ cleanup = [r \in RunIds |-> IdleRun]
    /\ mounted = TRUE
    /\ channel = "none"
    /\ Attached({})
    /\ NoFrames
    /\ prev = <<>>
    /\ last = Ran("mount", NoRow)
    /\ variant = "none"
    /\ rows = <<>>
    /\ loadState = "ok"
    /\ loading = FALSE
    /\ error = "null"
    /\ deleting = {}
    /\ pendingDel = {}
    /\ burst = 0

CleanupInit ==
    /\ CleanupMounted
    /\ currentdata \in CurrentTables
    /\ lockeddata \in LockedTables

\* The steps of the handleCleanup calls `runs`.
CleanupStep(runs) ==
    \/ \E r \in runs : CleanupClick(r)
    \/ \E r \in runs, o \in Outcomes : CurSelDone(r, o)
    \/ \E r \in runs, o \in Outcomes : CurDelDone(r, o)
    \/ \E r \in runs, o \in Outcomes, lockedRows \in ReadOrders(lockeddata) :
          LockSelDone(r, o, lockedRows)
    \/ \E r \in runs, o \in Outcomes : LockDelDone(r, o)
    \/ \E id \in OtherCurrentIds : CurrentInsert(id)

CleanupNext == CleanupStep(RunIds) /\ CleanupKeeps

SpecCleanup == CleanupInit /\ [][CleanupNext]_vars

\* SpecBatch: one handleCleanup call at a time, on the large lockeddata table.
BatchInit ==
    /\ CleanupMounted
    /\ currentdata \in CurrentTables
    /\ lockeddata = LargeLockedTable

BatchNext == CleanupStep({1}) /\ CleanupKeeps

SpecBatch == BatchInit /\ [][BatchNext]_vars

\* ------------------------------------------------ mounting and unmounting
\* The ref callbacks of the frames (setItemRef, src/src/setting.tsx lines
\* 609-628), the cleanups the effects return for unmount (lines 583, 602-605,
\* 631-639; src/src/App.tsx lines 299-301) and the answers that arrive after
\* unmount.

\* A mutant attaches up to MaxObservers observers to one frame.
MaxObservers == 2

\* The el of a ref callback: the frame's element, or null.
NullEl == "null"
Els == {"el", NullEl}

\* The refs of the page.
Refs(items, observers, obs) ==
    [itemRefs |-> items, resizeObservers |-> observers, observing |-> obs]

\* Mutant: the observer in the registry is forgotten, not disconnected.
SetItemRefNoDisconnect(refs, id, el) ==
    IF el = NullEl
    THEN Refs(refs.itemRefs \ {id}, refs.resizeObservers \ {id}, refs.observing)
    ELSE Refs(refs.itemRefs \cup {id}, refs.resizeObservers \cup {id},
              [refs.observing EXCEPT ![id] = @ + 1])

\* setItemRef(id, el): the observer registered for id, if any, is disconnected
\* and taken out of the registry; unless el is null a new one observes el and
\* is registered.
SetItemRef(refs, id, el) ==
    LET obs == IF id \in refs.resizeObservers
               THEN [refs.observing EXCEPT ![id] = @ - 1]
               ELSE refs.observing
    IN  IF el = NullEl
        THEN Refs(refs.itemRefs \ {id}, refs.resizeObservers \ {id}, obs)
        ELSE Refs(refs.itemRefs \cup {id}, refs.resizeObservers \cup {id},
                  [obs EXCEPT ![id] = @ + 1])

\* Mutant: the timer is left to run.
ClearedNot(t) == t

\* clearTimeout(timer)
Cleared(t) == NoTimer

EditorMounted == mounted /\ layout # "none"
GalleryMounted == mounted /\ variant # "none"

\* ref={(el) => setItemRef(id, el)}: React calls it with the element when the
\* frame is drawn and with null when it is taken away.
RefCallback(id, el) ==
    /\ layout # "none"
    /\ el # NullEl => (mounted /\ id \in Rendered(layout, views)
                          /\ observing[id] < MaxObservers)
    /\ LET refs == SetItemRef(Refs(itemRefs, resizeObservers, observing), id, el)
       IN  /\ itemRefs' = refs.itemRefs
           /\ resizeObservers' = refs.resizeObservers
           /\ observing' = refs.observing
    /\ UNCHANGED <<galleryVars, editorVars, prev, last, cleanupVars, frameVars, mounted,
                   channel>>

\* A ResizeObserver on the frame's element reports.
ObservedResize(id, rect) ==
    /\ observing[id] > 0
    /\ Resize(id, rect)

\* The SettingPage is unmounted: the debounce effect's cleanup clears the
\* timer, the drag effect's cleanup removes the window listeners, the last
\* effect's cleanup disconnects the registered observers and empties both refs.
EditorUnmount ==
    /\ EditorMounted
    /\ mounted' = FALSE
    /\ timer' = Cleared(timer)
    /\ observing' = [id \in FrameIds |->
                        IF id \in resizeObservers THEN observing[id] - 1
                        ELSE observing[id]]
    /\ resizeObservers' = {}
    /\ itemRefs' = {}
    /\ UNCHANGED <<layout, layouts, views, dragging, statusMsg, topId,
                   isLoading, layoutLoad, inFlight, scroll, origin, quiet,
                   calls, muts, sent>>
    /\ UNCHANGED <<galleryVars, prev, last, cleanupVars, frameVars, channel>>

\* The gallery is unmounted: supabase.removeChannel(channel).
GalleryUnmount ==
    /\ GalleryMounted
    /\ mounted' = FALSE
    /\ channel' = "removed"
    /\ UNCHANGED <<galleryVars, editorVars, prev, last, cleanupVars, frameVars, itemRefs,
                   resizeObservers, observing>>

\* Answers that arrive after unmount: the state setters of an unmounted
\* component do nothing.
LateLayoutLoad ==
    /\ ~mounted
    /\ layoutLoad = "pending"
    /\ layoutLoad' = "done"
    /\ UNCHANGED <<layout, layouts, views, dragging, statusMsg, topId,
                   isLoading, timer, inFlight, scroll, origin, quiet, calls,
                   muts, sent>>
    /\ UNCHANGED <<galleryVars, prev, last, pageVars>>

LateUpsertDone(k, outcome) ==
    /\ ~mounted
    /\ k \in 1..Len(inFlight)
    /\ inFlight' = Drop(inFlight, k)
    /\ layouts' = IF outcome = "ok" THEN Upserted(layouts, inFlight[k])
                  ELSE layouts
    /\ UNCHANGED <<layout, views, dragging, statusMsg, topId, isLoading,
                   layoutLoad, timer, scroll, origin, quiet, calls, muts, sent>>
    /\ UNCHANGED <<galleryVars, prev, last, pageVars>>

LateLoad(answer) ==
    /\ ~mounted
    /\ loadState = "pending"
    /\ loadState' = answer
    /\ UNCHANGED <<variant, rows, loading, error, deleting, pendingDel, burst>>
    /\ UNCHANGED <<editorVars, prev, last, pageVars>>

\* SpecLife: either page, mounted, used and unmounted.
LifeInit == Init \/ EditorInit

LifeNext ==
    \/ EditorMounted /\ LayoutLoad("ok")
    \/ EditorMounted /\ \E press \in Presses(ResizeIds, {"body"}) :
                           press.e.button = 0 /\ PointerDown(press.id, press.e)
    \/ EditorMounted /\ PointerMove(MouseEvent(Px(200), Px(150), 0))
    \/ EditorMounted /\ PointerUp
    \/ \E id \in ResizeIds, el \in Els : RefCallback(id, el)
    \/ EditorMounted /\ \E id \in ResizeIds, rect \in ContentRects :
                           ObservedResize(id, rect)
    \/ layout # "none" /\ Tick
    \/ layout # "none" /\ Flush
    \/ mounted /\ \E k \in 1..Len(inFlight), o \in {"ok", "error"} : UpsertDone(k, o)
    \/ \E k \in 1..Len(inFlight), o \in {"ok", "error"} : LateUpsertDone(k, o)
    \/ LateLayoutLoad
    \/ EditorUnmount
    \/ GalleryMounted /\ \E table \in Tables : LoadOk(table)
    \/ GalleryMounted /\ LoadFail
    \/ channel = "joined" /\ \E r \in LiveRows : OnInsert(r)
    \/ channel = "joined" /\ \E r \in LiveRows : OnUpdate(r)
    \/ channel = "joined" /\ \E i \in Ids : OnDelete(i)
    \/ \E answer \in {"ok", "failed"} : LateLoad(answer)
    \/ GalleryUnmount

SpecLife == LifeInit /\ [][LifeNext]_vars

\* ------------------------------------------------------ claims (cleanup)

\* The key a locked row is grouped by: an absent key counts as ''.
KeyOf(row) == IF row.nfc_id \in {NullNfc, ""} THEN "" ELSE row.nfc_id

\* The rows of a table that share the key of `row`.
Fellows(table, row) == {q \in table : KeyOf(q) = KeyOf(row)}

\* C21: when a cleanup has read the locked rows, in every group of more than
\* one row with the same groupKey every row except a single oldest one (by
\* createdAt, an absent one counted as 0) is marked, no row of a group of one
\* is marked, and when the cleanup ends without error no marked row is left in
\* the table.
C21_KeepOldest ==
    [][\A r \in RunIds :
          /\ (cleanup[r].at = "lockSel" /\ cleanup'[r].at \in {"lockDel", "done"}) =>
                LET marked == Range(cleanup'[r].idsToDelete)
                IN  /\ marked \subseteq {row.id : row \in lockeddata}
                    /\ \A row \in lockeddata :
                          LET group == Fellows(lockeddata, row)
                              kept == {q \in group : q.id \notin marked}
                          IN  /\ Cardinality(kept) = 1
                              /\ \A k \in kept, q \in group : Stamp(k) <= Stamp(q)
          /\ cleanup'[r].at = "done" =>
                \A row \in lockeddata' :
                   row.id \notin Range(cleanup'[r].idsToDelete)]_vars

\* The rows {1:A:1, 2:A:2, 3:B:3} after a cleanup: exactly id 2 was deleted.
C21_Witness ==
    /\ cleanup[1].at = "done"
    /\ cleanup[1].idsToDelete = <<2>>
    /\ lockeddata = {LockedRow(1, "A", 1), LockedRow(3, "B", 3)}

\* C22: the identifiers a cleanup deletes from the current table are those of
\* all rows in the table when it was read; a delete request is issued unless
\* there was none; once the request has answered without error none of these
\* rows is in the table; the count in the closing message is the number of
\* these identifiers.
C22_WipeCurrent ==
    [][\A r \in RunIds :
          /\ (cleanup[r].at = "curSel" /\ cleanup'[r].at \in {"curDel", "lockSel"}) =>
                /\ cleanup'[r].curIdList = currentdata
                /\ cleanup'[r].at = IF currentdata = {} THEN "lockSel" ELSE "curDel"
                /\ currentdata' = currentdata
          /\ (cleanup[r].at = "curDel" /\ cleanup'[r].at = "lockSel") =>
                currentdata' \cap cleanup[r].curIdList = {}
          /\ cleanup'[r].at = "done" =>
                /\ cleanup'[r].count[1] = Cardinality(cleanup'[r].curIdList)
                /\ ("curDel" \in Range(cleanup'[r].issued))
                      = (cleanup'[r].curIdList # {})]_vars

\* A cleanup that found two rows in the current table has ended: both are
\* gone and the message counts two.
C22_Witness ==
    /\ cleanup[1].at = "done"
    /\ cleanup[1].curIdList = {"c1", "c2"}
    /\ cleanup[1].count[1] = 2
    /\ currentdata = {}

\* C23: when a remote call of a cleanup answers with an error or rejects (the
\* read or the delete of the current table, the read of the locked table, any
\* delete batch of the locked table), the cleanup issues no further remote
\* call, the status message reports the failure, and both tables stay as the
\* earlier calls left them.
C23_CleanupFailure ==
    [][\A r \in RunIds :
          /\ \A o \in {"error", "throw"} :
                (\/ CurSelDone(r, o)
                 \/ CurDelDone(r, o)
                 \/ \E lockedRows \in ReadOrders(lockeddata) :
                       LockSelDone(r, o, lockedRows)
                 \/ LockDelDone(r, o)) =>
                    /\ cleanup'[r].at = "failed"
                    /\ cleanup'[r].issued = cleanup[r].issued
                    /\ statusMsg' = "cleanup failed"
                    /\ currentdata' = currentdata
                    /\ lockeddata' = lockeddata
          /\ (cleanup[r].at = "failed" /\ cleanup'[r].at = "failed") =>
                cleanup'[r].issued = cleanup[r].issued]_vars

\* The second delete batch of a cleanup has failed: the first batch stays
\* deleted, the identifier of the second batch is still in the table.
C23_Witness ==
    /\ cleanup[1].at = "failed"
    /\ Len(cleanup[1].batches) = 2
    /\ statusMsg = "cleanup failed"
    /\ Cardinality(lockeddata) = 3
    /\ \E row \in lockeddata : row.id \in Range(cleanup[1].batches[2])

\* C25: the delete requests of a cleanup on the locked table carry at most 500
\* identifiers each, one after the other the identifiers marked, in their
\* order: no identifier is in two requests, a cleanup that ends without error
\* has requested exactly the marked identifiers, and its closing message
\* counts them.
C25_Batches ==
    \A r \in RunIds :
       LET run == cleanup[r]
           n == Len(run.batches)
           Sent(k) == Range(run.batches[k])
       IN  /\ \A k \in 1..n : Len(run.batches[k]) \in 1..500
           /\ \A k \in 1..(n - 1) : Len(run.batches[k]) = 500
           /\ \A j, k \in 1..n : j # k => Sent(j) \cap Sent(k) = {}
           /\ \A k \in 1..n :
                 run.batches[k] =
                     SubSeq(run.idsToDelete, 500 * (k - 1) + 1,
                            500 * (k - 1) + Len(run.batches[k]))
           /\ run.at = "done" =>
                 /\ UNION {Sent(k) : k \in 1..n} = Range(run.idsToDelete)
                 /\ run.count[2] = Cardinality(Range(run.idsToDelete))

\* A cleanup has ended after two delete requests, the first of 500 identifiers.
C25_Witness ==
    /\ cleanup[1].at = "done"
    /\ Len(cleanup[1].batches) = 2
    /\ Len(cleanup[1].batches[1]) = 500
    /\ cleanup[1].count[2] > 500

\* ------------------------------------------------- claims (layout editor)

\* What C24 asks of onMove's updater in a state with an open session, for
\* every point the pointer may move to next.
C24_Moves ==
    dragging # NoSession =>
        \A pt \in MovePoints :
           LET f == dragging.id
               after == Moved(views, dragging, MouseEvent(pt.x, pt.y, 0))
               cur == Drawn(layout, views, f)
               nextX == pt.x - dragging.canvasLeft + dragging.scrollLeft
                            - dragging.offsetX
               nextY == pt.y - dragging.canvasTop + dragging.scrollTop
                            - dragging.offsetY
           IN  /\ \A id \in DOMAIN views \ {f} :
                     id \in DOMAIN after /\ after[id] = views[id]
               /\ DOMAIN after \subseteq DOMAIN views \cup {f}
               /\ f \in DOMAIN views =>
                     /\ DOMAIN after = DOMAIN views
                     /\ after[f].w = views[f].w
                     /\ after[f].h = views[f].h
               /\ (RoundOf(nextX) = RoundOf(cur.x) /\ RoundOf(nextY) = RoundOf(cur.y)) =>
                     after = views

\* C24 (as claimed): a pointer-move during a session for frame f changes at
\* most the x and y of f: its width and height and every other frame's entry
\* stay, and no key is added or removed for a frame already in the mapping;
\* when the rounded new position equals the frame's rounded current position
\* the mapping is not mutated and the debounce timer is not reset; a
\* pointer-move while idle never changes the mapping.
C24_Claim ==
    /\ []C24_Moves
    /\ [][\A pt \in MovePoints :
             PointerMove(MouseEvent(pt.x, pt.y, 0)) =>
                 /\ dragging = NoSession => views' = views
                 /\ views' = views => timer' = timer]_vars

\* What C28 asks of a state: at most one frame on screen has the stacking
\* value 1000, the one raised last, every other frame has 1, and a row of the
\* payload built from the mapping has no field but id, x, y, w, h.
C28_Stacking ==
    LET raised == {id \in Rendered(layout, views) : ZIndex(topId, id) = 1000}
    IN  /\ Cardinality(raised) <= 1
        /\ raised \subseteq {topId}
        /\ \A id \in Rendered(layout, views) \ raised : ZIndex(topId, id) = 1
        /\ \A row \in Payload(layout, views) :
              DOMAIN row = {"id", "x", "y", "w", "h"}

\* C28: at any time at most one frame has the stacking value 1000, the frame
\* that received the most recent pointer-down, whatever the button and the
\* place (the resize grip included), and every other frame has the value 1;
\* which frame is raised is no part of an upsert payload.
C28_ZOrder ==
    /\ []C28_Stacking
    /\ [][LET presses == Presses(PressIds, {"body", "grip", "edge"})
          IN  /\ \A press \in presses :
                    PointerDown(press.id, press.e) =>
                        /\ topId' = press.id
                        /\ ZIndex(topId', press.id) = 1000
              /\ topId' # topId =>
                    \E press \in presses : PointerDown(press.id, press.e)]_vars

\* frame-1 is raised by a press of the secondary button while the session of
\* frame-2 is open.
C28_Witness ==
    /\ topId = FrameId(1)
    /\ dragging.id = FrameId(2)
    /\ FrameId(2) \in DOMAIN views

\* ------------------------------------------------------ claims (unmount)

\* C26: once the layout editor is unmounted no timer is pending and no upsert
\* is started any more, even when the last mutation was never flushed, no
\* observer observes a frame and the registry is empty; once the gallery is
\* unmounted its channel is removed and the collection changes no more.
C26_Unmount ==
    /\ [](~mounted =>
            /\ layout # "none" =>
                  /\ timer = NoTimer
                  /\ resizeObservers = {}
                  /\ \A id \in FrameIds : observing[id] = 0
            /\ variant # "none" => channel = "removed")
    /\ [][~mounted =>
             /\ ~mounted'
             /\ calls' = calls
             /\ Len(inFlight') <= Len(inFlight)
             /\ rows' = rows]_vars

\* The editor was unmounted with a mutation not yet flushed, and the debounce
\* delay has passed since: nothing was sent.
C26_Witness ==
    /\ ~mounted
    /\ DOMAIN views # {}
    /\ muts > 0
    /\ calls = 0
    /\ quiet = Debounce
    /\ inFlight = <<>>

\* What C27 asks of setItemRef in a state: a frame has at most one observer,
\* the registered one; attaching leaves the frame with exactly one, whatever
\* was registered; detaching a frame that has no registered observer changes
\* nothing, and detaching one that has leaves none.
C27_Registry ==
    LET now == Refs(itemRefs, resizeObservers, observing)
    IN  /\ \A id \in FrameIds :
              /\ observing[id] <= 1
              /\ observing[id] = 1 <=> id \in resizeObservers
        /\ \A id \in ResizeIds :
              LET on == SetItemRef(now, id, "el")
                  off == SetItemRef(now, id, NullEl)
              IN  /\ on.observing[id] = 1
                  /\ id \in on.resizeObservers
                  /\ off.observing[id] = 0
                  /\ id \notin off.resizeObservers
                  /\ id \notin resizeObservers =>
                        /\ off.resizeObservers = resizeObservers
                        /\ off.observing = observing
                  /\ \A other \in FrameIds \ {id} :
                        /\ on.observing[other] = observing[other]
                        /\ off.observing[other] = observing[other]

\* C27: across any sequence of attach and detach calls for a frame id at most
\* one live observer is registered for the id; attaching first disconnects
\* and removes the one registered; detaching an id that has none is a no-op.
C27_ObserverRegistry ==
    /\ []C27_Registry
    /\ [][\A id \in ResizeIds, el \in Els :
             RefCallback(id, el) =>
                 observing'[id] = IF el = NullEl THEN 0 ELSE 1]_vars

\* The mounted page after a detach of frame-2 that was followed by nothing, and
\* with the mapping holding the frame.
C27_Witness ==
    /\ mounted
    /\ layout = "B"
    /\ FrameId(2) \notin resizeObservers
    /\ FrameId(2) \in DOMAIN views

\* ------------------------------------------------------ claims (races)

\* C29 (as claimed): when the gallery's initial load completes, every record a
\* live insert put into the collection before, and no delete took out since,
\* is still in the collection, and the record a live delete removed just
\* before is not in it, whatever snapshot the bulk read returns.
C29_Claim ==
    [][last'.op = "LOAD_OK" =>
          /\ \A k \in 1..Len(rows) : rows[k].id \in IdsOf(rows')
          /\ last.op = "DELETE" => last.row.id \notin IdsOf(rows')]_vars

\* C30 (as claimed): in variant B no upsert is in flight before the load has
\* completed, and no upsert carries, for a frame id that has a row in storage
\* with another rectangle, the default grid rectangle of that id.  (The moves
\* and resizes of SpecEditor never produce a frame's default rectangle.)
C30_Claim ==
    layout = "B" =>
        /\ layoutLoad = "pending" => inFlight = <<>>
        /\ \A k \in 1..Len(inFlight) :
              \A row \in inFlight[k], stored \in layouts :
                 LET Rect(r) == Geometry(r.x, r.y, r.w, r.h)
                 IN  (stored.id = row.id /\ row.id \in TwentyFrames
                         /\ Rect(row) = GridRect(FrameNumber(row.id))) =>
                        \A c \in {"x", "y", "w", "h"} :
                           RoundOf(stored[c]) = Rect(row)[c]

\* C32: no step of a cleanup, alone or next to another cleanup that is still
\* running, removes the last locked row of a groupKey: every key that has a
\* row before the step has one after it.
C32_Claim ==
    [][\A row \in lockeddata : \E q \in lockeddata' : KeyOf(q) = KeyOf(row)]_vars

\* The locked rows whose groupKey is null or ''.
Keyless(table) == {row \in table : row.nfc_id \in {NullNfc, ""}}

\* C33: when a cleanup has read two or more locked rows whose groupKey is null
\* or '', it marks all of them except a single oldest one, and when it ends
\* without error exactly that row is left of them.
C33_EmptyKeyGroup ==
    [][\A r \in RunIds :
          (/\ cleanup[r].at = "lockSel"
           /\ cleanup'[r].at \in {"lockDel", "done"}
           /\ Cardinality(Keyless(lockeddata)) >= 2) =>
             LET marked == Range(cleanup'[r].idsToDelete)
                 kept == {row \in Keyless(lockeddata) : row.id \notin marked}
             IN  /\ Cardinality(kept) = 1
                 /\ \A k \in kept, q \in Keyless(lockeddata) :
                       Stamp(k) <= Stamp(q)
                 /\ cleanup'[r].at = "done" => Keyless(lockeddata') = kept]_vars

\* The rows {1:null:2, 2:'':1, 3:null:3} after a cleanup: ids 3 and 1 were
\* deleted, the row with key '' is left.
C33_Witness ==
    /\ cleanup[1].at = "done"
    /\ Range(cleanup[1].idsToDelete) = {1, 3}
    /\ lockeddata = {LockedRow(2, "", 1)}

\* ------------------------------------------------ claims (frame layouts)

\* The rows of a table stored for the frame id frame-n.
StoredFor(table, n) == {row \in table : row.id = FrameId(n)}

\* C34: once the frame layouts are loaded, the record in display slot i is
\* drawn with the stored rectangle of the frame id frame-i when the table has
\* a row for frame-i, and with the default grid rectangle of index i - 1 (4
\* columns, cells of 320 x 220, margin 16) otherwise.
C34_Claim ==
    framesLoad = "ok" =>
        \A idx \in VisibleIdx(rows) :
           LET stored == StoredFor(layouts, idx + 1)
           IN  IF stored # {}
               THEN \E row \in stored :
                       Box(frames, idx) = Geometry(row.x, row.y, row.w, row.h)
               ELSE Box(frames, idx) =
                       Geometry((idx % 4) * Px(336), (idx \div 4) * Px(236),
                                Px(320), Px(220))

\* ------------------------------------------------ claims (convergence)

\* Storage holds, for every frame id of the mapping, its rounded geometry.
Converged ==
    \A id \in DOMAIN views :
       SettingLayoutRow(id, Geometry(RoundOf(views[id].x), RoundOf(views[id].y),
                                     RoundOf(views[id].w), RoundOf(views[id].h)))
          \in layouts

\* C31: if from some moment on the mapping is not mutated any more (the page
\* stays mounted, every upsert succeeds), then from some moment on storage
\* holds, for every frame id of the mapping, the rounded final geometry, also
\* when two upserts overlap and are answered in either order.
C31_Claim == <>[][views' = views]_vars => <>[]Converged

====
